---- MODULE Spec2Model ----
(***************************************************************************)
(* Q-learning family learners of xuance (torch back end):                  *)
(*   DDQN_Learner, DRQN_Learner, PerDQN_Learner.                           *)
(*                                                                         *)
(* A learner is an object with a handful of fields and one operation,      *)
(* update.  The policy network, the optimizer and the scheduler            *)
(* are collaborators: the policy's outputs are inputs of the model (drawn  *)
(* from small sets), the optimizer step produces a new version of the      *)
(* online parameters, LinearLR is the linear schedule of its arguments.    *)
(*                                                                         *)
(* Numbers.  Tensor entries are fixed-point numbers with GammaDen units    *)
(* per 1, so that gamma = 0.9 is the integer 9 and every product the code  *)
(* forms on integer-valued inputs is exact.  IEEE non-finite values (inf,  *)
(* nan) are not part of the value domain.  Action indices are 0-based as   *)
(* in the code, sequences are 1-based.                                     *)
(***************************************************************************)
EXTENDS Integers, Sequences, FiniteSets, TLC

VARIABLES learner, call, shards

vars == <<learner, call, shards>>

(* ------------------------------ bounds --------------------------------- *)
MaxBatch == 2
MaxIter == 4
MaxSync == 2
MaxWorld == 3
MaxSeq == 2
MaxShardBatch == 6
RunningSteps == 3
GradClipNorm == 3

(* ---------------------------- fixed point ------------------------------ *)
GammaDen == 10

Fx(n) == n * GammaDen

FxMul(a, b) == (a * b) \div GammaDen

Abs(x) == IF x < 0 THEN 0 - x ELSE x

Min(a, b) == IF a < b THEN a ELSE b

RECURSIVE SumSeq(_)
SumSeq(s) == IF Len(s) = 0 THEN 0 ELSE Head(s) + SumSeq(Tail(s))

RECURSIVE MaxSeqVal(_)
MaxSeqVal(s) == IF Len(s) = 1 THEN s[1]
                ELSE LET m == MaxSeqVal(Tail(s)) IN IF s[1] >= m THEN s[1] ELSE m

(* ------------------------- tensor operations --------------------------- *)
\* nn.functional.one_hot(a, n): indicator vector of the 0-based index a
one_hot(a, n) == [j \in 1..n |-> IF j = a + 1 THEN 1 ELSE 0]

\* (q * mask).sum(dim=-1) on one row
MaskSum(q, mask) == SumSeq([j \in 1..Len(q) |-> q[j] * mask[j]])

\* rew + gamma * (1 - ter) * q on one entry, evaluated left to right
TDEntryNoMask(rew, ter, q, gamma) == rew + FxMul(gamma, q)

TDEntry(rew, ter, q, gamma) == rew + FxMul(FxMul(gamma, Fx(1) - ter), q)

\* torch.as_tensor applied to a python list of integers
AsTensor(v) == [i \in 1..Len(v) |-> Fx(v[i])]

AsTensor2(v) == [b \in 1..Len(v) |-> AsTensor(v[b])]

\* act_batch.long(): back from the tensor's number to an integer index
Long(x) == x \div GammaDen

\* v[range(lo, hi)]: the entries of v at those indices, in order
Take(v, r) == IF r[2] <= r[1] THEN <<>> ELSE SubSeq(v, r[1] + 1, r[2])

\* v[:, 0:-1] and v[:, 1:] on one row
DropLast(row) == IF Len(row) = 0 THEN <<>> ELSE SubSeq(row, 1, Len(row) - 1)

DropFirst(row) == IF Len(row) = 0 THEN <<>> ELSE SubSeq(row, 2, Len(row))

(* ------------------------- build_training_data ------------------------- *)
SkippedKeysNoWeights == {"batch_size", "step_choices"}

SkippedKeys == {"batch_size", "weights", "step_choices"}

\* the bounds <<lo, hi>> of `indices` for one rank
ShardRangeNoRemainder(batch_size, world_size, rank) ==
    LET batch_size_local == batch_size \div world_size
    IN  <<rank * batch_size_local, (rank + 1) * batch_size_local>>

ShardRange(batch_size, world_size, rank) ==
    LET batch_size_local == batch_size \div world_size
    IN  IF rank < world_size - 1
        THEN <<rank * batch_size_local, (rank + 1) * batch_size_local>>
        ELSE <<rank * batch_size_local, batch_size>>

build_training_data(self, samples) ==
    LET batch_size == samples["batch_size"]
        keys == {k \in DOMAIN samples : k \notin SkippedKeys}
    IN  IF self.world_size > 1
        THEN LET indices == ShardRange(batch_size, self.world_size, self.rank)
             IN  [k \in keys |-> AsTensor(Take(samples[k], indices))]
        ELSE [k \in keys |-> AsTensor(samples[k])]

\* the as_tensor block of DDQN_Learner.update
DDQNTensors(samples) ==
    [k \in {"obs", "actions", "obs_next", "rewards", "terminals"} |-> AsTensor(samples[k])]

\* the as_tensor block of DRQN_Learner.update
DRQNTensors(samples) ==
    [k \in {"obs", "actions", "rewards", "terminals"} |-> AsTensor2(samples[k])]

(* ------------------------------ the policy ----------------------------- *)
\* policy.init_hidden(batch_size): the default recurrent state, one per row
init_hidden(batch_size) == [i \in 1..batch_size |-> 0]

\* the recurrent state a forward pass returns: advanced once per sequence step
HiddenOut(hidden, rows) ==
    [i \in DOMAIN hidden |-> hidden[i] + (IF Len(rows) = 0 THEN 0 ELSE Len(rows[1])) + 1]

(* --------------------------- target formulas --------------------------- *)
\* targetQ.max(dim=-1).values on one row, taken as the first entry instead
FirstBootstrap(q, a) == q[1]

\* targetQ.max(dim=-1).values on one row (the returned action is unused)
MaxBootstrap(q, a) == MaxSeqVal(q)

MaxInsteadOfSelected(q, a) == MaxSeqVal(q)

\* (targetQ * one_hot(targetA, n)).sum(dim=-1) on one row
DoubleQBootstrap(q, a) == MaskSum(q, one_hot(a, Len(q)))

Bootstrap(kind, q, a) ==
    IF kind = "PerDQN" THEN MaxBootstrap(q, a) ELSE DoubleQBootstrap(q, a)

\* (evalQ * one_hot(act.long(), n)).sum(dim=-1) on one row
Predict(q, act) == MaskSum(q, one_hot(Long(act), Len(q)))

RECURSIVE Flatten(_)
Flatten(rows) == IF Len(rows) = 0 THEN <<>> ELSE Head(rows) \o Flatten(Tail(rows))

\* a mean kept as the exact fraction sum / count (count 0 is torch's nan)
Mean(v) == [sum |-> SumSeq(v), count |-> Len(v)]

\* nn.MSELoss()(p, t) on flat tensors
mse_loss(p, t) == Mean([i \in 1..Len(p) |-> (p[i] - t[i]) * (p[i] - t[i])])

(* ------------------------- optimizer, scheduler ------------------------ *)
\* LinearLR(start_factor=1.0, end_factor=0.0, total_iters=running_steps):
\* the learning rate after last_epoch scheduler steps, RunningSteps units = base
LinearLR(last_epoch) == RunningSteps - Min(last_epoch, RunningSteps)

\* clip_grad_norm_(parameters, max_norm): the gradient norm after the call
clip_grad_norm_(norm, max_norm) == Min(norm, max_norm)

SyncDueAlways(self) == TRUE

\* self.iterations % self.sync_frequency == 0
SyncDue(self) == self.iterations % self.sync_frequency = 0

(* ------------------------------ statistics ----------------------------- *)
InfoKeyPlain(self, name) == name

InfoKey(self, name) ==
    IF self.distributed_training
    THEN name \o "/rank_" \o ToString(self.rank)
    ELSE name

Info(self, loss, lr, predictQ) ==
    [k \in {InfoKey(self, "Qloss"), InfoKey(self, "learning_rate"), InfoKey(self, "predictQ")} |->
        IF k = InfoKey(self, "Qloss") THEN loss
        ELSE IF k = InfoKey(self, "learning_rate") THEN [sum |-> lr, count |-> 1]
        ELSE predictQ]

(* ----------------------- the statements of update ---------------------- *)
(* A statement maps st = [self |-> the learner's fields, loc |-> the       *)
(* call's locals] to the st after it.  loc.log lists the calls made on the *)
(* collaborators, in order.                                                *)
Logged(st, what) == [st EXCEPT !.loc.log = Append(@, what)]

Is2D(st) == st.self.kind = "DRQN"

\* apply Op to every entry of a (flat or batch x time) tensor index
Rows(st, t) == IF Is2D(st) THEN t ELSE <<t>>

Unrows(st, rows) == IF Is2D(st) THEN rows ELSE rows[1]

S_iterations(st) == Logged([st EXCEPT !.self.iterations = @ + 1], "iterations")

S_tensors(st) ==
    [st EXCEPT !.loc.T =
        IF st.self.kind = "PerDQN" THEN build_training_data(st.self, st.loc.samples)
        ELSE IF st.self.kind = "DRQN" THEN DRQNTensors(st.loc.samples)
        ELSE DDQNTensors(st.loc.samples)]

RnnHiddenCarried(st) ==
    IF Len(st.loc.prev_hidden) = st.loc.samples["batch_size"]
    THEN st.loc.prev_hidden
    ELSE init_hidden(st.loc.samples["batch_size"])

\* self.policy.init_hidden(batch_size), for either forward pass
RnnHidden(st) == init_hidden(st.loc.samples["batch_size"])

\* the observations the online pass sees
OnlineObs(st) ==
    IF Is2D(st) THEN [b \in 1..Len(st.loc.T["obs"]) |-> DropLast(st.loc.T["obs"][b])]
    ELSE st.loc.T["obs"]

\* the observations the target pass sees
TargetObs(st) ==
    IF Is2D(st) THEN [b \in 1..Len(st.loc.T["obs"]) |-> DropFirst(st.loc.T["obs"][b])]
    ELSE st.loc.T["obs_next"]

S_forward(st) ==
    LET h == IF Is2D(st) THEN RnnHidden(st) ELSE <<>>
        o == OnlineObs(st)
    IN  Logged([st EXCEPT !.loc.rnn_hidden = h,
                          !.loc.obs_online = o,
                          !.loc.evalQ = st.loc.net.evalQ,
                          !.loc.hidden_out = IF Is2D(st) THEN HiddenOut(h, o) ELSE <<>>],
               "forward")

S_target(st) ==
    LET h == IF Is2D(st) THEN RnnHidden(st) ELSE <<>>
        o == TargetObs(st)
    IN  Logged([st EXCEPT !.loc.target_rnn_hidden = h,
                          !.loc.obs_target = o,
                          !.loc.targetA = st.loc.net.targetA,
                          !.loc.targetQ = st.loc.net.targetQ],
               "target")

\* the two or three lines that turn the target pass into the TD target
S_td(st) ==
    LET q == Rows(st, st.loc.targetQ)
        a == Rows(st, st.loc.targetA)
        rew == Rows(st, st.loc.T["rewards"])
        ter == Rows(st, st.loc.T["terminals"])
        boot == [b \in 1..Len(q) |-> [i \in 1..Len(q[b]) |->
                    Bootstrap(st.self.kind, q[b][i], a[b][i])]]
        td == [b \in 1..Len(q) |-> [i \in 1..Len(q[b]) |->
                    TDEntry(rew[b][i], ter[b][i], boot[b][i], st.self.gamma)]]
    IN  [st EXCEPT !.loc.boot = Unrows(st, boot), !.loc.targetQ = Unrows(st, td)]

S_predict(st) ==
    LET q == Rows(st, st.loc.evalQ)
        act == Rows(st, st.loc.T["actions"])
        p == [b \in 1..Len(q) |-> [i \in 1..Len(q[b]) |-> Predict(q[b][i], act[b][i])]]
    IN  [st EXCEPT !.loc.predictQ = Unrows(st, p)]

S_td_error(st) ==
    [st EXCEPT !.loc.td_error =
        [i \in 1..Len(st.loc.targetQ) |-> st.loc.targetQ[i] - st.loc.predictQ[i]]]

S_loss(st) ==
    Logged([st EXCEPT !.loc.loss = mse_loss(Flatten(Rows(st, st.loc.predictQ)),
                                            Flatten(Rows(st, st.loc.targetQ)))], "loss")

S_zero_grad(st) == Logged([st EXCEPT !.self.grad = 0], "zero_grad")

S_backward(st) == Logged([st EXCEPT !.self.grad = @ + st.loc.net.grad_norm], "backward")

S_clip(st) ==
    IF st.self.use_grad_clip
    THEN Logged([st EXCEPT !.self.grad = clip_grad_norm_(@, st.self.grad_clip_norm)], "clip")
    ELSE st

S_step(st) ==
    Logged([st EXCEPT !.self.online = @ + 1, !.loc.stepped_grad = st.self.grad], "step")

S_scheduler(st) ==
    IF st.self.has_scheduler
    THEN Logged([st EXCEPT !.self.last_epoch = @ + 1,
                           !.self.lr = LinearLR(st.self.last_epoch + 1)], "scheduler")
    ELSE st

S_copy_target(st) ==
    IF SyncDue(st.self)
    THEN Logged([st EXCEPT !.self.target = st.self.online], "copy_target")
    ELSE st

S_lr(st) == Logged([st EXCEPT !.loc.lr = st.self.lr], "lr")

S_info(st) ==
    [st EXCEPT !.loc.info =
        Info(st.self, st.loc.loss, st.loc.lr, Mean(Flatten(Rows(st, st.loc.predictQ))))]

S_return(st) ==
    [st EXCEPT !.loc.ret =
        IF st.self.kind = "PerDQN"
        THEN <<[i \in 1..Len(st.loc.td_error) |-> Abs(st.loc.td_error[i])], st.loc.info>>
        ELSE <<st.loc.info>>]

Exec(name, st) ==
    CASE name = "iterations" -> S_iterations(st)
      [] name = "tensors" -> S_tensors(st)
      [] name = "forward" -> S_forward(st)
      [] name = "target" -> S_target(st)
      [] name = "td" -> S_td(st)
      [] name = "predict" -> S_predict(st)
      [] name = "td_error" -> S_td_error(st)
      [] name = "loss" -> S_loss(st)
      [] name = "zero_grad" -> S_zero_grad(st)
      [] name = "backward" -> S_backward(st)
      [] name = "clip" -> S_clip(st)
      [] name = "step" -> S_step(st)
      [] name = "scheduler" -> S_scheduler(st)
      [] name = "copy_target" -> S_copy_target(st)
      [] name = "lr" -> S_lr(st)
      [] name = "info" -> S_info(st)
      [] name = "return" -> S_return(st)

ProgramClipLate(kind) ==
    <<"iterations", "tensors", "forward", "target", "td", "predict">>
    \o (IF kind = "PerDQN" THEN <<"td_error">> ELSE <<>>)
    \o <<"loss", "zero_grad", "backward", "step", "clip", "scheduler",
         "copy_target", "lr", "info", "return">>

\* the statements of update, top to bottom
Program(kind) ==
    <<"iterations", "tensors", "forward", "target", "td", "predict">>
    \o (IF kind = "PerDQN" THEN <<"td_error">> ELSE <<>>)
    \o <<"loss", "zero_grad", "backward", "clip", "step", "scheduler",
         "copy_target", "lr", "info", "return">>

RECURSIVE Run(_, _)
Run(prog, st) == IF Len(prog) = 0 THEN st ELSE Run(Tail(prog), Exec(Head(prog), st))

NoSamples == [batch_size |-> 0]

NoNet == [evalQ |-> <<>>, targetA |-> <<>>, targetQ |-> <<>>, grad_norm |-> 0]

\* the locals of a call before its first statement
Locals(samples, net, prev_hidden) ==
    [samples |-> samples, net |-> net, prev_hidden |-> prev_hidden,
     T |-> <<>>, rnn_hidden |-> <<>>, target_rnn_hidden |-> <<>>,
     obs_online |-> <<>>, obs_target |-> <<>>, hidden_out |-> <<>>,
     evalQ |-> <<>>, targetA |-> <<>>, targetQ |-> <<>>, boot |-> <<>>,
     predictQ |-> <<>>, td_error |-> <<>>, loss |-> Mean(<<>>),
     stepped_grad |-> 0, lr |-> 0, info |-> <<>>, ret |-> <<>>, log |-> <<>>]

\* update(**samples) of a learner whose fields are self
update(self, samples, net, prev_hidden) ==
    Run(Program(self.kind), [self |-> self, loc |-> Locals(samples, net, prev_hidden)])

(* ------------------------------ the learner ---------------------------- *)
Kinds == {"DDQN", "DRQN", "PerDQN"}

\* the fields of the Learner base class that update reads: the counter
\* starts at 0 and at construction the target parameters are the online ones
LearnerBase(use_grad_clip, distributed_training, world_size, rank) ==
    [use_grad_clip |-> use_grad_clip, grad_clip_norm |-> GradClipNorm,
     distributed_training |-> distributed_training,
     world_size |-> world_size, rank |-> rank,
     iterations |-> 0, online |-> 0, target |-> 0, grad |-> 0]

\* __init__: the base fields, then optimizer, scheduler, gamma, sync_frequency
NewLearner(kind, gamma, sync_frequency, use_grad_clip, has_scheduler, distributed_training, world_size, rank) ==
    LearnerBase(use_grad_clip, distributed_training, world_size, rank)
    @@ [kind |-> kind, gamma |-> gamma, sync_frequency |-> sync_frequency,
        has_scheduler |-> has_scheduler, last_epoch |-> 0, lr |-> LinearLR(0)]

NoCall == [pre |-> <<>>, loc |-> Locals(NoSamples, NoNet, <<>>), alt |-> <<>>]

NoShards == [batch_size |-> 0, world_size |-> 0, sel |-> <<>>]

Called == call.loc.log # <<>>

(* ------------------------------- inputs -------------------------------- *)
\* a flat batch: rows is a sequence of [rew, ter, act]
FlatSamples(rows) ==
    [obs |-> [i \in 1..Len(rows) |-> i - 1],
     obs_next |-> [i \in 1..Len(rows) |-> i],
     actions |-> [i \in 1..Len(rows) |-> rows[i].act],
     rewards |-> [i \in 1..Len(rows) |-> rows[i].rew],
     terminals |-> [i \in 1..Len(rows) |-> rows[i].ter],
     batch_size |-> Len(rows)]

\* a recurrent batch: rows is a sequence (batch) of sequences (time) of
\* [rew, ter, act]; obs holds one more step than the other arrays
SeqSamples(rows) ==
    [obs |-> [b \in 1..Len(rows) |-> [t \in 1..(Len(rows[b]) + 1) |-> 10 * b + t - 1]],
     actions |-> [b \in 1..Len(rows) |-> [t \in 1..Len(rows[b]) |-> rows[b][t].act]],
     rewards |-> [b \in 1..Len(rows) |-> [t \in 1..Len(rows[b]) |-> rows[b][t].rew]],
     terminals |-> [b \in 1..Len(rows) |-> [t \in 1..Len(rows[b]) |-> rows[b][t].ter]],
     batch_size |-> Len(rows)]

\* the policy's outputs on a flat batch: outs is a sequence of [evalQ, targetA, targetQ]
FlatNet(outs, g) ==
    [evalQ |-> [i \in 1..Len(outs) |-> AsTensor(outs[i].evalQ)],
     targetA |-> [i \in 1..Len(outs) |-> outs[i].targetA],
     targetQ |-> [i \in 1..Len(outs) |-> AsTensor(outs[i].targetQ)],
     grad_norm |-> g]

SeqNet(outs, g) ==
    [evalQ |-> [b \in 1..Len(outs) |-> [t \in 1..Len(outs[b]) |-> AsTensor(outs[b][t].evalQ)]],
     targetA |-> [b \in 1..Len(outs) |-> [t \in 1..Len(outs[b]) |-> outs[b][t].targetA]],
     targetQ |-> [b \in 1..Len(outs) |-> [t \in 1..Len(outs[b]) |-> AsTensor(outs[b][t].targetQ)]],
     grad_norm |-> g]

\* the number of rows that reach the policy
PolicyRows(self, samples) ==
    IF self.kind = "PerDQN" THEN Len(build_training_data(self, samples)["obs"])
    ELSE samples["batch_size"]

Gammas == {0, 9, 10}

GradNorms == {1, 5}

Row0 == [rew |-> 1, ter |-> 0, act |-> 0]

Out0 == [evalQ |-> <<1, 0>>, targetA |-> 1, targetQ |-> <<0, 2>>]

\* batches of one fixed transition, of the smallest and the largest size
\* (and sequence length)
LifeSamples(kind) ==
    IF kind = "DRQN"
    THEN {SeqSamples([b \in 1..B |-> [t \in 1..T |-> Row0]]) : B \in {1, MaxBatch}, T \in {1, MaxSeq}}
    ELSE {FlatSamples([i \in 1..B |-> Row0]) : B \in {1, MaxBatch}}

LifeNet(self, samples, g) ==
    IF self.kind = "DRQN"
    THEN SeqNet([b \in 1..Len(samples["rewards"]) |->
                    [t \in 1..Len(samples["rewards"][b]) |-> Out0]], g)
    ELSE FlatNet([i \in 1..PolicyRows(self, samples) |-> Out0], g)

(* ------------------------------- actions ------------------------------- *)
\* one call learner.update(**samples); alt is the record of a shadow call
DoUpdate(samples, net, alt) ==
    LET st == update(learner, samples, net, call.loc.hidden_out)
    IN  /\ learner' = st.self
        /\ call' = [pre |-> learner, loc |-> st.loc, alt |-> alt]
        /\ UNCHANGED shards

Init ==
    /\ learner \in {NewLearner(k, 9, n, c, s, d, w, r) :
                        k \in Kinds, n \in 1..MaxSync, c \in BOOLEAN, s \in BOOLEAN,
                        d \in BOOLEAN, w \in {1, MaxWorld}, r \in {0, MaxWorld - 1}}
    /\ learner.rank < learner.world_size
    /\ call = NoCall
    /\ shards = NoShards

Update ==
    /\ learner.iterations < MaxIter
    /\ \E samples \in LifeSamples(learner.kind) : \E g \in GradNorms :
          DoUpdate(samples, LifeNet(learner, samples, g), <<>>)

Next == Update

Spec == Init /\ [][Next]_vars

(* ----------------- the TD target on arbitrary batches ------------------ *)
TDRows == {[rew |-> r, ter |-> t, act |-> 0] : r \in {0, 1, 2}, t \in {0, 1}}

TDOuts == {[evalQ |-> <<1, 0>>, targetA |-> a, targetQ |-> q] :
              a \in {0, 1}, q \in {<<0 - 1, 2>>, <<3, 0>>}}

\* the scenario batch: rewards [1, 0, 0, 2], terminals [0, 0, 1, 0]
ScenarioRows ==
    <<[rew |-> 1, ter |-> 0, act |-> 0], [rew |-> 0, ter |-> 0, act |-> 0],
      [rew |-> 0, ter |-> 1, act |-> 0], [rew |-> 2, ter |-> 0, act |-> 0]>>

TDRowSeqs == UNION {[1..B -> TDRows] : B \in 1..MaxBatch} \cup {ScenarioRows}

\* a batch for the learner's kind (the recurrent one with sequences of one step)
TDSamples(kind, rows) ==
    IF kind = "DRQN" THEN SeqSamples([b \in 1..Len(rows) |-> <<rows[b]>>])
    ELSE FlatSamples(rows)

TDNet(kind, outs) ==
    IF kind = "DRQN" THEN SeqNet([b \in 1..Len(outs) |-> <<outs[b]>>], 1)
    ELSE FlatNet(outs, 1)

InitTD ==
    /\ learner \in {NewLearner(k, g, 1, FALSE, TRUE, FALSE, 1, 0) : k \in Kinds, g \in Gammas}
    /\ call = NoCall
    /\ shards = NoShards

UpdateTD ==
    /\ learner.iterations = 0
    /\ \E rows \in TDRowSeqs : \E outs \in [1..Len(rows) -> TDOuts] :
          DoUpdate(TDSamples(learner.kind, rows), TDNet(learner.kind, outs), <<>>)

NextTD == UpdateTD

SpecTD == InitTD /\ [][NextTD]_vars

(* ------------------- PER-DQN on sharded batches ------------------------ *)
PerRowA == [rew |-> 0, ter |-> 1, act |-> 0]

PerRowB == [rew |-> 2, ter |-> 0, act |-> 1]

PerRowSeqs == UNION {[1..B -> {PerRowA, PerRowB}] : B \in 0..(MaxBatch + 1)}

\* an optional entry of samples: absent (<<>>) or <<v>>, v on every row
ExtraValues == {<<>>, <<1>>, <<5>>}

WithExtras(samples, w, c) ==
    LET B == samples["batch_size"]
        ws == IF w = <<>> THEN <<>> ELSE [k \in {"weights"} |-> [i \in 1..B |-> w[1]]]
        cs == IF c = <<>> THEN <<>> ELSE [k \in {"step_choices"} |-> [i \in 1..B |-> c[1]]]
    IN  [k \in DOMAIN samples \cup DOMAIN ws \cup DOMAIN cs |->
            IF k \in DOMAIN ws THEN ws[k] ELSE IF k \in DOMAIN cs THEN cs[k] ELSE samples[k]]

InitPer ==
    /\ learner \in {NewLearner("PerDQN", 9, 1, c, s, w > 1, w, r) :
                        c \in BOOLEAN, s \in BOOLEAN, w \in 1..MaxWorld, r \in 0..(MaxWorld - 1)}
    /\ learner.rank < learner.world_size
    /\ call = NoCall
    /\ shards = NoShards

\* one call, and beside it the same call on samples that differ in the
\* optional entries only
UpdatePer ==
    /\ learner.iterations = 0
    /\ \E rows \in PerRowSeqs : \E w1 \in {<<>>, <<1>>}, c1 \in {<<>>, <<1>>} :
       \E w2 \in ExtraValues, c2 \in ExtraValues :
          LET base == FlatSamples(rows)
              samples == WithExtras(base, w1, c1)
              other == WithExtras(base, w2, c2)
              net == FlatNet([i \in 1..PolicyRows(learner, samples) |-> Out0], 1)
              shadow == update(learner, other, net, call.loc.hidden_out)
          IN  DoUpdate(samples, net, shadow)

NextPer == UpdatePer

SpecPer == InitPer /\ [][NextPer]_vars

(* ----------------------- the shards of one batch ----------------------- *)
\* the batch whose obs entry i is i: what a rank selects shows its indices
IndexSamples(B) == FlatSamples([i \in 1..B |-> Row0])

InitShard ==
    /\ learner = NewLearner("PerDQN", 9, 1, FALSE, TRUE, TRUE, 1, 0)
    /\ call = NoCall
    /\ shards \in {[batch_size |-> B, world_size |-> W, sel |-> <<>>] :
                       B \in 0..MaxShardBatch, W \in 2..(MaxWorld + 1)}

\* the process of rank r builds its training data from the batch
ShardRank ==
    \E r \in (0..(shards.world_size - 1)) \ DOMAIN shards.sel :
      LET self == [learner EXCEPT !.world_size = shards.world_size, !.rank = r]
          T == build_training_data(self, IndexSamples(shards.batch_size))
          idx == [i \in 1..Len(T["obs"]) |-> Long(T["obs"][i])]
      IN  /\ shards' = [shards EXCEPT !.sel = (r :> idx) @@ @]
          /\ UNCHANGED <<learner, call>>

NextShard == ShardRank

SpecShard == InitShard /\ [][NextShard]_vars

(* ============================ properties ================================ *)
LastCallSynced == learner.iterations % learner.sync_frequency = 0

\* C1: the k-th update call leaves the target parameters unchanged when
\* k mod N # 0 and makes them equal to the online parameters after that
\* call's optimizer step when k mod N = 0; between calls the target is the
\* online version of the most recent call whose index is a multiple of N
\* (the online version after call j is j, the initial one is 0).
C1_TargetSync ==
    /\ learner.online = learner.iterations
    /\ learner.target = (learner.iterations \div learner.sync_frequency) * learner.sync_frequency
    /\ Called =>
          /\ learner.iterations = call.pre.iterations + 1
          /\ learner.online = call.pre.online + 1
          /\ ~LastCallSynced => learner.target = call.pre.target
          /\ LastCallSynced => learner.target = learner.online

C1_Witness ==
    /\ Called
    /\ learner.sync_frequency = 2
    /\ learner.iterations = 3
    /\ learner.target = 2
    /\ learner.online = 3

Digit(r) ==
    CASE r = 0 -> "0" [] r = 1 -> "1" [] r = 2 -> "2" [] r = 3 -> "3" [] r = 4 -> "4"
      [] r = 5 -> "5" [] r = 6 -> "6" [] r = 7 -> "7" [] r = 8 -> "8" [] r = 9 -> "9"

ReturnedInfo == call.loc.ret[Len(call.loc.ret)]

\* C6: every update call returns a statistics mapping with exactly the
\* three entries loss, learning rate and mean prediction, keyed
\* Qloss/rank_r, learning_rate/rank_r, predictQ/rank_r under distributed
\* training and Qloss, learning_rate, predictQ otherwise; PER-DQN returns
\* the TD-error array first and the mapping second.
C6_InfoKeys ==
    Called =>
      LET suffix == IF learner.distributed_training
                    THEN "/rank_" \o Digit(learner.rank) ELSE ""
          info == ReturnedInfo
      IN  /\ DOMAIN info = {"Qloss" \o suffix, "learning_rate" \o suffix, "predictQ" \o suffix}
          /\ Cardinality(DOMAIN info) = 3
          /\ info["Qloss" \o suffix] = call.loc.loss
          /\ info["learning_rate" \o suffix] = [sum |-> learner.lr, count |-> 1]
          /\ info["predictQ" \o suffix] =
                Mean(Flatten(IF learner.kind = "DRQN" THEN call.loc.predictQ
                             ELSE <<call.loc.predictQ>>))
          /\ IF learner.kind = "PerDQN"
             THEN Len(call.loc.ret) = 2 /\ Len(call.loc.ret[1]) = Len(call.loc.td_error)
             ELSE Len(call.loc.ret) = 1

C6_Witness ==
    /\ Called
    /\ learner.kind = "PerDQN"
    /\ learner.distributed_training
    /\ learner.rank = 2
    /\ "Qloss/rank_2" \in DOMAIN ReturnedInfo

\* C8: in DRQN_Learner.update both forward passes receive the hidden state
\* init_hidden(batch_size), whatever earlier calls returned; the learner
\* keeps no hidden state; the online pass sees steps 0..T-1 of obs and the
\* target pass steps 1..T.
C8_NoHiddenCarryOver ==
    (Called /\ learner.kind = "DRQN") =>
      LET B == call.loc.samples["batch_size"]
          obs == call.loc.samples["obs"]
      IN  /\ call.loc.rnn_hidden = [i \in 1..B |-> 0]
          /\ call.loc.target_rnn_hidden = [i \in 1..B |-> 0]
          /\ DOMAIN learner = DOMAIN call.pre
          /\ Len(call.loc.obs_online) = B
          /\ Len(call.loc.obs_target) = B
          /\ \A b \in 1..B :
                LET T == Len(obs[b]) - 1
                IN  /\ call.loc.obs_online[b] = [s \in 1..T |-> Fx(obs[b][s])]
                    /\ call.loc.obs_target[b] = [s \in 1..T |-> Fx(obs[b][s + 1])]

C8_Witness ==
    /\ Called
    /\ learner.kind = "DRQN"
    /\ learner.iterations >= 2
    /\ Len(call.loc.prev_hidden) = call.loc.samples["batch_size"]
    /\ call.loc.prev_hidden[1] > 0
    /\ Len(call.loc.samples["obs"][1]) = 3
    /\ call.loc.rnn_hidden[1] = 0

ExpectedLog ==
    <<"iterations", "forward", "target", "loss", "zero_grad", "backward">>
    \o (IF learner.use_grad_clip THEN <<"clip">> ELSE <<>>)
    \o <<"step">>
    \o (IF learner.has_scheduler THEN <<"scheduler">> ELSE <<>>)
    \o (IF LastCallSynced THEN <<"copy_target">> ELSE <<>>)
    \o <<"lr">>

\* C9: within one update call the steps happen once each and in the order
\* counter, forward passes and loss, zero_grad, backward, clipping (iff
\* use_grad_clip), optimizer step, scheduler step (iff a scheduler is
\* present), target-sync check, reading the learning rate; so the optimizer
\* steps on the clipped gradient, a sync copies the post-step online
\* parameters and the reported learning rate is the one after the
\* scheduler step.
C9_StepOrder ==
    Called =>
      /\ call.loc.log = ExpectedLog
      /\ call.loc.stepped_grad =
            (IF learner.use_grad_clip
             THEN Min(call.loc.net.grad_norm, learner.grad_clip_norm)
             ELSE call.loc.net.grad_norm)
      /\ LastCallSynced => learner.target = call.pre.online + 1
      /\ call.loc.lr =
            (IF learner.has_scheduler
             THEN RunningSteps - Min(call.pre.last_epoch + 1, RunningSteps)
             ELSE call.pre.lr)

C9_Witness ==
    /\ Called
    /\ learner.use_grad_clip
    /\ learner.has_scheduler
    /\ call.loc.net.grad_norm > learner.grad_clip_norm
    /\ call.loc.stepped_grad = learner.grad_clip_norm
    /\ LastCallSynced
    /\ learner.iterations = 2
    /\ call.loc.lr = RunningSteps - 2

\* the last call's tensors and inputs as flat sequences, entry by entry
FlatOf(t) == IF learner.kind = "DRQN" THEN Flatten(t) ELSE t

CallRew == FlatOf(call.loc.samples["rewards"])

CallTer == FlatOf(call.loc.samples["terminals"])

CallTarget == FlatOf(call.loc.targetQ)

CallNetQ == FlatOf(call.loc.net.targetQ)

CallNetA == FlatOf(call.loc.net.targetA)

\* C4: on every batch element whose terminal flag is 1 the TD target is
\* the reward exactly, whatever action values and arg-max action the
\* target network returned for it.
C4_TerminalTarget ==
    Called =>
      \A i \in 1..Len(CallTer) :
        CallTer[i] = 1 => CallTarget[i] = CallRew[i] * GammaDen

C4_Witness ==
    /\ Called
    /\ learner.kind = "DDQN"
    /\ \E i \in 1..Len(CallTer) :
          /\ CallTer[i] = 1
          /\ CallRew[i] = 2
          /\ CallNetQ[i][CallNetA[i] + 1] = 3 * GammaDen
          /\ CallTarget[i] = 2 * GammaDen

\* the bootstrapped value the claim names, per learner
ClaimedBootstrap(i) ==
    IF learner.kind = "PerDQN"
    THEN CHOOSE v \in {CallNetQ[i][j] : j \in 1..Len(CallNetQ[i])} :
            \A j \in 1..Len(CallNetQ[i]) : v >= CallNetQ[i][j]
    ELSE CallNetQ[i][CallNetA[i] + 1]

\* C5: on every batch element whose terminal flag is 0 the TD target is
\* reward + gamma * bootstrap, the bootstrap being the target network's
\* value at the action it returned (DDQN, DRQN) or the maximum of its
\* values (PER-DQN); gamma is learner.gamma / GammaDen.  On the scenario
\* batch with gamma 0.9: target[0] = 1 + 0.9 * bootstrap[0], target[2] = 0.
C5_NonTerminalTarget ==
    Called =>
      /\ \A i \in 1..Len(CallTer) :
            CallTer[i] = 0 =>
              CallTarget[i] * GammaDen =
                CallRew[i] * GammaDen * GammaDen + learner.gamma * ClaimedBootstrap(i)
      /\ (CallRew = <<1, 0, 0, 2>> /\ CallTer = <<0, 0, 1, 0>> /\ learner.gamma = 9) =>
            /\ CallTarget[1] * GammaDen = GammaDen * GammaDen + 9 * ClaimedBootstrap(1)
            /\ CallTarget[3] = 0

C5_Witness ==
    /\ Called
    /\ learner.kind = "DDQN"
    /\ learner.gamma = 9
    /\ CallRew = <<1, 0, 0, 2>>
    /\ CallTer = <<0, 0, 1, 0>>
    /\ CallNetA[1] = 0
    /\ CallNetQ[1] = <<0 - GammaDen, 2 * GammaDen>>
    /\ CallTarget[1] = GammaDen - 9
    /\ CallTarget[3] = 0

\* the same call made by a PER-DQN learner with the same fields
PerTwinTarget ==
    update([call.pre EXCEPT !.kind = "PerDQN"], call.loc.samples, call.loc.net, <<>>).loc.targetQ

IsArgMax(i) == \A j \in 1..Len(CallNetQ[i]) : CallNetQ[i][CallNetA[i] + 1] >= CallNetQ[i][j]

\* C10: the double-Q target of DDQN_Learner equals the max target of
\* PerDQN_Learner on every element whose returned action is an arg-max of
\* the returned values; otherwise it is at most the PER-DQN target (and
\* equal to it on terminal elements).
C10_DoubleQVersusMax ==
    (Called /\ learner.kind = "DDQN") =>
      \A i \in 1..Len(CallTer) :
        /\ IsArgMax(i) => CallTarget[i] = PerTwinTarget[i]
        /\ CallTarget[i] <= PerTwinTarget[i]
        /\ CallTer[i] = 1 => CallTarget[i] = PerTwinTarget[i]

C10_Witness ==
    /\ Called
    /\ learner.kind = "DDQN"
    /\ Len(CallTer) = 2
    /\ CallTer = <<0, 0>>
    /\ IsArgMax(1)
    /\ CallTarget[1] = PerTwinTarget[1]
    /\ ~IsArgMax(2)
    /\ CallTarget[2] < PerTwinTarget[2]

SeqRange(q) == {q[i] : i \in 1..Len(q)}

\* C2: with world_size W > 1 the index ranges of ranks 0..W-1 are pairwise
\* disjoint, contiguous in rank order and cover exactly 0..B-1; a rank
\* below W-1 gets floor(B/W) indices, rank W-1 gets floor(B/W) + B mod W.
C2_ShardsPartition ==
    LET B == shards.batch_size
        W == shards.world_size
        sel == shards.sel
    IN  /\ \A r \in DOMAIN sel :
              /\ Len(sel[r]) = (IF r < W - 1 THEN B \div W ELSE (B \div W) + (B % W))
              /\ \A i \in 1..Len(sel[r]) : sel[r][i] = r * (B \div W) + i - 1
        /\ \A r1, r2 \in DOMAIN sel : r1 # r2 => SeqRange(sel[r1]) \cap SeqRange(sel[r2]) = {}
        /\ (W > 1 /\ DOMAIN sel = 0..(W - 1)) =>
              /\ UNION {SeqRange(sel[r]) : r \in 0..(W - 1)} = 0..(B - 1)
              /\ \A r \in 0..(W - 2) :
                    Len(sel[r + 1]) > 0 /\ Len(sel[r]) > 0 =>
                        sel[r + 1][1] = sel[r][Len(sel[r])] + 1

C2_Witness ==
    /\ shards.batch_size = 5
    /\ shards.world_size = 3
    /\ DOMAIN shards.sel = 0..2
    /\ shards.sel[0] = <<0>>
    /\ shards.sel[1] = <<1>>
    /\ shards.sel[2] = <<2, 3, 4>>

\* C3 (as claimed): the TD-error array PerDQN_Learner.update returns has
\* as many entries as samples['batch_size'], for any world size and rank,
\* and every entry is non-negative.
C3_TDErrorLength ==
    (Called /\ learner.kind = "PerDQN") =>
      /\ Len(call.loc.ret[1]) = call.loc.samples["batch_size"]
      /\ \A i \in 1..Len(call.loc.ret[1]) : call.loc.ret[1][i] >= 0

\* C7: a PER-DQN update call on samples that differ only in the optional
\* entries weights and step_choices gives the same TD target, loss,
\* TD-error array, statistics and learner state; batch_size, weights and
\* step_choices never enter the tensor mapping.
C7_OptionalEntriesIgnored ==
    (Called /\ learner.kind = "PerDQN" /\ DOMAIN call.alt # {}) =>
      /\ call.alt.loc.targetQ = call.loc.targetQ
      /\ call.alt.loc.predictQ = call.loc.predictQ
      /\ call.alt.loc.loss = call.loc.loss
      /\ call.alt.loc.ret = call.loc.ret
      /\ call.alt.self = learner
      /\ call.alt.loc.T = call.loc.T
      /\ DOMAIN call.loc.T \cap {"batch_size", "weights", "step_choices"} = {}
      /\ DOMAIN call.alt.loc.T \cap {"batch_size", "weights", "step_choices"} = {}

C7_Witness ==
    /\ Called
    /\ learner.kind = "PerDQN"
    /\ learner.world_size = 2
    /\ learner.rank = 1
    /\ call.loc.samples["batch_size"] = 3
    /\ "weights" \in DOMAIN call.loc.samples
    /\ "step_choices" \notin DOMAIN call.loc.samples
    /\ "weights" \in DOMAIN call.alt.loc.samples
    /\ call.alt.loc.samples["weights"] # call.loc.samples["weights"]
    /\ "step_choices" \in DOMAIN call.alt.loc.samples
    /\ call.alt.loc.ret = call.loc.ret
    /\ Len(call.loc.ret[1]) = 2

====
